---- MODULE Spec2Model ----
(***************************************************************************)
(* Model of fiducial_slam/src/fiducial_slam.cpp: the FiducialSlam node,    *)
(* its transformCallback, the SIGINT handler and the main loop.            *)
(*                                                                         *)
(* The main thread is a program counter `pc`.  SIGINT is an asynchronous   *)
(* POSIX signal: once the handler is installed it can interrupt the main   *)
(* thread between any two steps, the handler then runs to completion on    *)
(* the interrupted thread (`hpc`) before the main thread resumes.          *)
(***************************************************************************)
EXTENDS Integers, Sequences, FiniteSets, TLC

(***************************************************************************)
(* Bounds of the model.                                                    *)
(***************************************************************************)
\* most sightings in one FiducialTransformArray message
MaxSightings == 2
\* most SIGINT deliveries in one run
MaxSignals == 2

(***************************************************************************)
(* C++ double arithmetic (IEEE 754) on a sign / magnitude representation:  *)
(* a finite value is (-1)^neg * n/d in lowest terms, so that +0 and -0,    *)
(* the infinities and NaN are all distinct values.                         *)
(***************************************************************************)
RECURSIVE GCD(_, _)
GCD(a, b) == IF b = 0 THEN a ELSE GCD(b, a % b)

Fin(neg, n, d) ==
    LET g == IF n = 0 THEN d ELSE GCD(n, d)
    IN  [k |-> "fin", neg |-> neg, n |-> n \div g, d |-> d \div g]

Inf(neg) == [k |-> "inf", neg |-> neg, n |-> 0, d |-> 1]

NaN == [k |-> "nan", neg |-> FALSE, n |-> 0, d |-> 1]

IsZero(x) == x.k = "fin" /\ x.n = 0

\* double operator* as used at line 118
DMul(a, b) ==
    LET neg == (a.neg # b.neg)
    IN  IF a.k = "nan" \/ b.k = "nan" THEN NaN
        ELSE IF a.k = "inf" \/ b.k = "inf"
             THEN IF IsZero(a) \/ IsZero(b) THEN NaN ELSE Inf(neg)
             ELSE Fin(neg, a.n * b.n, a.d * b.d)

\* double operator/ as used at line 116
DDiv(a, b) ==
    LET neg == (a.neg # b.neg)
    IN  IF a.k = "nan" \/ b.k = "nan" THEN NaN
        ELSE IF a.k = "inf"
             THEN IF b.k = "inf" THEN NaN ELSE Inf(neg)
             ELSE IF b.k = "inf" THEN Fin(neg, 0, 1)
             ELSE IF IsZero(b)
                  THEN IF IsZero(a) THEN NaN ELSE Inf(neg)
                  ELSE Fin(neg, a.n * b.d, a.d * b.n)

(***************************************************************************)
(* Messages: fiducial_msgs::FiducialTransformArray.                        *)
(***************************************************************************)
\* geometry_msgs::Transform: a translation (one token stands for x, y, z)
\* and the four quaternion components of the rotation
Transform(t, qx, qy, qz, qw) ==
    [translation |-> t, rotation |-> [x |-> qx, y |-> qy, z |-> qz, w |-> qw]]

FiducialTransform(id, tf, area, err) ==
    [fiducial_id |-> id, transform |-> tf,
     fiducial_area |-> area, object_error |-> err]

\* the sightings a detector message may carry: two well-formed ones (one of
\* them tilted), one with a zero area and error, one with a negative area
\* and a non-finite error; the translation tells the sightings apart
Sightings ==
    { FiducialTransform(2, Transform(1, 0, 0, 0, 1), Fin(FALSE, 4, 1), Fin(FALSE, 1, 2)),
      FiducialTransform(1, Transform(2, 1, 0, 0, 0), Fin(FALSE, 2, 1), Fin(FALSE, 1, 1)),
      FiducialTransform(1, Transform(3, 0, 1, 0, 0), Fin(FALSE, 0, 1), Fin(FALSE, 0, 1)),
      FiducialTransform(2, Transform(4, 0, 0, 1, 0), Fin(TRUE, 1, 1), NaN) }

Stamps == {10, 20}

Frames == {"camera"}

SeqsUpTo(S, n) == UNION { [1..m -> S] : m \in 0..n }

Messages ==
    { [transforms |-> ts, stamp |-> st, frame_id |-> fr] :
        ts \in SeqsUpTo(Sightings, MaxSightings), st \in Stamps, fr \in Frames }

NoMsg == [transforms |-> <<>>, stamp |-> 0, frame_id |-> ""]

\* values the parameter server may hold for weighting_scale
WeightingScales == {Fin(FALSE, 1, 1), Fin(FALSE, 2, 1)}

(***************************************************************************)
(* State.                                                                  *)
(***************************************************************************)
VARIABLES
    pc,            \* position of the main thread in main()
    hpc,           \* position inside mySigintHandler, "none" when not running
    handler,       \* disposition of SIGINT: "default" or "mySigintHandler"
    rosOk,         \* value of ros::ok()
    node,          \* the global unique_ptr<FiducialSlam> is non-null
    doPoseEstimation, \* the do_pose_estimation parameter read by the constructor
    ft_sub,        \* the node subscribed to /fiducial_transforms
    use_fiducial_area_as_weight,
    weighting_scale,
    use_read_only_map,
    fiducialsFlat,
    verboseInfo,
    msg,           \* the message transformCallback is handling
    observations,  \* the vector handed to fiducialMap.update(observations, stamp)
    updateStamp,   \* the stamp handed to fiducialMap.update(observations, stamp)
    fuseIdx,       \* observations of the running pass already applied to the map
    landmarks,     \* Map state: identifiers of the fiducials in the map
    saveCount,     \* number of times saveMap has written the map
    sigCount       \* number of SIGINTs delivered

config == <<node, doPoseEstimation, ft_sub, use_fiducial_area_as_weight, weighting_scale,
            use_read_only_map, fiducialsFlat, verboseInfo>>

pass == <<msg, observations, updateStamp, fuseIdx>>

vars == <<pc, hpc, handler, rosOk, config, pass, landmarks, saveCount, sigCount>>

(***************************************************************************)
(* transformCallback, lines 92-140.                                        *)
(***************************************************************************)
\* To sort the fiducials we need a compare routine looking at fiducial id
compareObservation(obs1, obs2) == obs1.fid < obs2.fid

\* the quaternion q built at lines 104-109 when the flattening flag is flat;
\* it is local to the if / else block and dies at the closing brace
QuaternionFor(flat, ft) ==
    IF flat
    THEN [x |-> 0, y |-> 0, z |-> ft.transform.rotation.z, w |-> ft.transform.rotation.w]
    ELSE [x |-> ft.transform.rotation.x, y |-> ft.transform.rotation.y,
          z |-> ft.transform.rotation.z, w |-> ft.transform.rotation.w]

LocalQuaternion(ft) == QuaternionFor(fiducialsFlat, ft)

\* the two weighting policies exchanged
Variance_PoliciesSwapped(ft) ==
    IF use_fiducial_area_as_weight
    THEN DMul(weighting_scale, ft.object_error)
    ELSE DDiv(weighting_scale, ft.fiducial_area)

\* lines 114-119
Variance(ft) ==
    IF use_fiducial_area_as_weight
    THEN DDiv(weighting_scale, ft.fiducial_area)
    ELSE DMul(weighting_scale, ft.object_error)

\* the observation stamped with a default-constructed time, not the header's
MakeObservation_DefaultStamp(ft, m) ==
    [fid |-> ft.fiducial_id,
     T_camFid |-> [transform |-> ft.transform,
                   variance  |-> Variance(ft),
                   stamp_    |-> 0,
                   frame_id_ |-> m.frame_id]]

\* flat mode building a fresh transform from q and losing the translation
ObservationFor_FlatLosesTranslation(flat, ft, m) ==
    LET q == QuaternionFor(flat, ft)
    IN  [fid |-> ft.fiducial_id,
         T_camFid |-> [transform |-> IF flat THEN [translation |-> 0, rotation |-> q]
                                     ELSE ft.transform,
                       variance  |-> Variance(ft),
                       stamp_    |-> m.stamp,
                       frame_id_ |-> m.frame_id]]

\* one pass through the loop body, lines 96-124, when the flattening flag is
\* flat: q is built and dropped, and the Observation is
\* Observation(fid, Stamped<TransformWithVariance>(
\*     TransformWithVariance(ft.transform, variance), stamp, frame_id))
ObservationFor(flat, ft, m) ==
    LET q == QuaternionFor(flat, ft)
    IN  [fid |-> ft.fiducial_id,
         T_camFid |-> [transform |-> ft.transform,
                       variance  |-> Variance(ft),
                       stamp_    |-> m.stamp,
                       frame_id_ |-> m.frame_id]]

\* lines 121-123 with the node's flag
MakeObservation(ft, m) == ObservationFor(fiducialsFlat, ft, m)

\* the loop started one element late
BuildObservations_SkipsFirst(m) ==
    [i \in 1..(Len(m.transforms) - 1) |-> MakeObservation(m.transforms[i + 1], m)]

\* the loop of lines 95-125: one push_back per element of msg->transforms
BuildObservations(m) ==
    [i \in 1..Len(m.transforms) |-> MakeObservation(m.transforms[i], m)]

Rearrangements(n) == { p \in [1..n -> 1..n] : \A i, j \in 1..n : p[i] = p[j] => i = j }

\* the call of std::sort left out
StdSort_Unsorted(s) == {s}

\* std::sort(first, last, comp): the range is left sorted with respect to
\* comp; the relative order of equivalent elements is not specified, so every
\* sorted permutation is a possible outcome
StdSort(s) ==
    { t \in { [i \in 1..Len(s) |-> s[p[i]]] : p \in Rearrangements(Len(s)) } :
        \A i, j \in 1..Len(t) : i < j => ~compareObservation(t[j], t[i]) }

(***************************************************************************)
(* main, lines 197-212, and the FiducialSlam constructor, lines 142-181.   *)
(***************************************************************************)
Init ==
    /\ pc = "construct"
    /\ hpc = "none"
    /\ handler = "default"
    /\ rosOk = TRUE
    /\ node = FALSE
    /\ doPoseEstimation = FALSE
    /\ ft_sub = FALSE
    /\ use_fiducial_area_as_weight = FALSE
    /\ weighting_scale = Fin(FALSE, 1, 1)
    /\ use_read_only_map = FALSE
    /\ fiducialsFlat = FALSE
    /\ verboseInfo = FALSE
    /\ msg = NoMsg
    /\ observations = <<>>
    /\ updateStamp = 0
    /\ fuseIdx = 0
    /\ landmarks = {}
    /\ saveCount = 0
    /\ sigCount = 0

Running == hpc = "none" /\ pc \notin {"done", "killed"}

\* the subscription made outside the if / else on do_pose_estimation
Construct_AlwaysSubscribes ==
    /\ Running /\ pc = "construct"
    /\ \E area \in BOOLEAN, scale \in WeightingScales, pose \in BOOLEAN,
          flat \in BOOLEAN, ro \in BOOLEAN, verbose \in BOOLEAN :
          /\ use_fiducial_area_as_weight' = area
          /\ weighting_scale' = scale
          /\ doPoseEstimation' = pose
          /\ fiducialsFlat' = flat
          /\ use_read_only_map' = ro
          /\ verboseInfo' = verbose
          /\ ft_sub' = TRUE
    /\ node' = TRUE
    /\ pc' = "install"
    /\ UNCHANGED <<hpc, handler, rosOk, pass, landmarks, saveCount, sigCount>>

\* node = make_unique<FiducialSlam>(nh): every field is read from the
\* parameter server; the subscription is made unless do_pose_estimation
Construct ==
    /\ Running /\ pc = "construct"
    /\ \E area \in BOOLEAN, scale \in WeightingScales, pose \in BOOLEAN,
          flat \in BOOLEAN, ro \in BOOLEAN, verbose \in BOOLEAN :
          /\ use_fiducial_area_as_weight' = area
          /\ weighting_scale' = scale
          /\ doPoseEstimation' = pose
          /\ fiducialsFlat' = flat
          /\ use_read_only_map' = ro
          /\ verboseInfo' = verbose
          /\ ft_sub' = ~pose
    /\ node' = TRUE
    /\ pc' = "install"
    /\ UNCHANGED <<hpc, handler, rosOk, pass, landmarks, saveCount, sigCount>>

\* the handler installed before the node is constructed
InstallHandler_BeforeNode ==
    /\ Running /\ pc \in {"construct", "install"}
    /\ handler = "default"
    /\ handler' = "mySigintHandler"
    /\ pc' = IF pc = "install" THEN "loop" ELSE pc
    /\ UNCHANGED <<hpc, rosOk, config, pass, landmarks, saveCount, sigCount>>

\* signal(SIGINT, mySigintHandler)
InstallHandler ==
    /\ Running /\ pc = "install"
    /\ handler' = "mySigintHandler"
    /\ pc' = "loop"
    /\ UNCHANGED <<hpc, rosOk, config, pass, landmarks, saveCount, sigCount>>

\* while (ros::ok())
LoopCheck ==
    /\ Running /\ pc = "loop"
    /\ pc' = IF rosOk THEN "spin" ELSE "done"
    /\ UNCHANGED <<hpc, handler, rosOk, config, pass, landmarks, saveCount, sigCount>>

\* the rest of the iteration skipped when nothing was dispatched
SpinOnceIdle_SkipsTick ==
    /\ Running /\ pc = "spin"
    /\ pc' = "loop"
    /\ UNCHANGED <<hpc, handler, rosOk, config, pass, landmarks, saveCount, sigCount>>

\* ros::spinOnce() with nothing to dispatch: no subscription, an empty
\* queue, or a queue disabled by ros::shutdown()
SpinOnceIdle ==
    /\ Running /\ pc = "spin"
    /\ pc' = "sleep"
    /\ UNCHANGED <<hpc, handler, rosOk, config, pass, landmarks, saveCount, sigCount>>

\* the batch dropped in read-only mode
transformCallback_ReadWriteOnly(m) ==
    /\ Running /\ pc = "spin"
    /\ ft_sub /\ rosOk /\ ~use_read_only_map
    /\ msg' = m
    /\ observations' \in StdSort(BuildObservations(m))
    /\ updateStamp' = m.stamp
    /\ fuseIdx' = 0
    /\ pc' = "fuse"
    /\ UNCHANGED <<hpc, handler, rosOk, config, landmarks, saveCount, sigCount>>

\* ros::spinOnce() dispatching the queued message (queue size 1) to
\* transformCallback, up to and including the call of
\* fiducialMap.update(observations, msg->header.stamp)
transformCallback(m) ==
    /\ Running /\ pc = "spin"
    /\ ft_sub /\ rosOk
    /\ msg' = m
    /\ observations' \in StdSort(BuildObservations(m))
    /\ updateStamp' = m.stamp
    /\ fuseIdx' = 0
    /\ pc' = "fuse"
    /\ UNCHANGED <<hpc, handler, rosOk, config, landmarks, saveCount, sigCount>>

\* Map::update(observations, stamp) handling its next observation: a new
\* landmark is inserted unless the map is read-only
MapUpdateStep ==
    /\ Running /\ pc = "fuse"
    /\ fuseIdx < Len(observations)
    /\ landmarks' = IF use_read_only_map THEN landmarks
                    ELSE landmarks \cup {observations[fuseIdx + 1].fid}
    /\ fuseIdx' = fuseIdx + 1
    /\ UNCHANGED <<pc, hpc, handler, rosOk, config, msg, observations, updateStamp,
                   saveCount, sigCount>>

\* Map::update(observations, stamp) and transformCallback return
MapUpdateReturn ==
    /\ Running /\ pc = "fuse"
    /\ fuseIdx = Len(observations)
    /\ msg' = NoMsg
    /\ observations' = <<>>
    /\ updateStamp' = 0
    /\ fuseIdx' = 0
    /\ pc' = "sleep"
    /\ UNCHANGED <<hpc, handler, rosOk, config, landmarks, saveCount, sigCount>>

\* the tick issued while a callback may still be inside its update
Sleep_DuringPass ==
    /\ Running /\ pc \in {"sleep", "fuse"}
    /\ pc' = "tick"
    /\ UNCHANGED <<hpc, handler, rosOk, config, pass, landmarks, saveCount, sigCount>>

\* r.sleep() returns and node->fiducialMap.update() is entered
Sleep ==
    /\ Running /\ pc = "sleep"
    /\ pc' = "tick"
    /\ UNCHANGED <<hpc, handler, rosOk, config, pass, landmarks, saveCount, sigCount>>

\* Map::update() returns; the tick leaves the landmarks alone
MapTickReturn ==
    /\ Running /\ pc = "tick"
    /\ pc' = "loop"
    /\ UNCHANGED <<hpc, handler, rosOk, config, pass, landmarks, saveCount, sigCount>>

(***************************************************************************)
(* SIGINT and mySigintHandler, lines 185-195.                              *)
(***************************************************************************)
\* the read_only_map test left out
ShouldSave_IgnoresReadOnly == node

\* the read_only_map test inverted
ShouldSave_Inverted == node /\ use_read_only_map

\* lines 186-191: the map is saved when the node exists and is not read-only
ShouldSave == node /\ ~use_read_only_map

\* a SIGINT is delivered to the process: with the default disposition
\* (ros::init was given NoSigintHandler) the process is killed, otherwise
\* the main thread is interrupted where it stands and enters the handler
Sigint ==
    /\ Running
    /\ sigCount < MaxSignals
    /\ sigCount' = sigCount + 1
    /\ IF handler = "default"
       THEN pc' = "killed" /\ hpc' = hpc
       ELSE pc' = pc /\ hpc' = "entered"
    /\ UNCHANGED <<handler, rosOk, config, pass, landmarks, saveCount>>

\* the handler clearing the read-only flag as it goes
HandlerSave_ClearsReadOnly ==
    /\ hpc = "entered"
    /\ saveCount' = IF ShouldSave THEN saveCount + 1 ELSE saveCount
    /\ hpc' = "shutdown"
    /\ use_read_only_map' = FALSE
    /\ UNCHANGED <<pc, handler, rosOk, node, doPoseEstimation, ft_sub,
                   use_fiducial_area_as_weight, weighting_scale, fiducialsFlat,
                   verboseInfo, pass, landmarks, sigCount>>

\* the if / else of the handler: saveMap() or the "not saving" log line
HandlerSave ==
    /\ hpc = "entered"
    /\ saveCount' = IF ShouldSave THEN saveCount + 1 ELSE saveCount
    /\ hpc' = "shutdown"
    /\ UNCHANGED <<pc, handler, rosOk, config, pass, landmarks, sigCount>>

\* ros::shutdown(), then the handler returns to the interrupted code
HandlerShutdown ==
    /\ hpc = "shutdown"
    /\ rosOk' = FALSE
    /\ hpc' = "none"
    /\ UNCHANGED <<pc, handler, config, pass, landmarks, saveCount, sigCount>>

Next ==
    \/ Construct
    \/ InstallHandler
    \/ LoopCheck
    \/ SpinOnceIdle
    \/ \E m \in Messages : transformCallback(m)
    \/ MapUpdateStep
    \/ MapUpdateReturn
    \/ Sleep
    \/ MapTickReturn
    \/ Sigint
    \/ HandlerSave
    \/ HandlerShutdown

Spec == Init /\ [][Next]_vars

TypeOK ==
    /\ pc \in {"construct", "install", "loop", "spin", "fuse", "sleep", "tick", "done", "killed"}
    /\ hpc \in {"none", "entered", "shutdown"}
    /\ saveCount \in 0..sigCount

(***************************************************************************)
(* Properties.                                                             *)
(***************************************************************************)
IsFinite(x) == x.k = "fin"

\* the observations built from sighting ft (the translation identifies it)
ObservationsOf(ft) ==
    { i \in 1..Len(observations) :
        /\ observations[i].fid = ft.fiducial_id
        /\ observations[i].T_camFid.transform.translation = ft.transform.translation }

\* C1: in read-only mode the map is never saved, whatever signals,
\* observation batches and ticks happen
C1_ReadOnlyNeverSaves == use_read_only_map => saveCount = 0

C1_Witness ==
    /\ use_read_only_map
    /\ pc = "done"
    /\ sigCount >= 2
    /\ ~rosOk

\* C2: saveMap never executes while an update of the map is partially
\* applied (a pass under way when the signal arrives completes first)
PartiallyApplied == pc = "fuse" /\ 0 < fuseIdx /\ fuseIdx < Len(observations)

C2_SaveNeverDuringUpdate == [][saveCount' # saveCount => ~PartiallyApplied]_vars

\* C3: in read-write mode, once the handler is about to request or has
\* requested ros::shutdown, the map has been saved; the main loop does not
\* exit through the signal path with the map unsaved
C3_SavedBeforeShutdown ==
    (node /\ ~use_read_only_map /\ (hpc = "shutdown" \/ ~rosOk \/ pc = "done"))
        => saveCount >= 1

C3_Witness ==
    /\ ~use_read_only_map
    /\ pc = "done"
    /\ saveCount >= 1
    /\ landmarks # {}

\* C4: after the shutdown signal has been handled no fiducialMap.update
\* call, with or without observations, is started or continued
UpdateRuns == (pc' \in {"fuse", "tick"} /\ pc' # pc) \/ fuseIdx' > fuseIdx

C4_NoUpdateAfterShutdown == [][(~rosOk /\ hpc = "none") => ~UpdateRuns]_vars

\* C5: the list handed to fiducialMap.update is in non-decreasing
\* fiducial-identifier order, whatever the order of the message
C5_SortedByFid ==
    \A i, j \in 1..Len(observations) :
        i < j => observations[i].fid <= observations[j].fid

C5_Witness ==
    /\ pc = "fuse"
    /\ Len(msg.transforms) = 2
    /\ msg.transforms[1].fiducial_id > msg.transforms[2].fiducial_id
    /\ observations[1].fid < observations[2].fid

\* C6: sightings with the same identifier keep their arrival order in the
\* list handed to fiducialMap.update (the sort is stable)
SameFid(s, f) == SelectSeq(s, LAMBDA o : o.fid = f)

C6_StableTieBreak ==
    pc = "fuse" =>
        \A f \in { ft.fiducial_id : ft \in Sightings } :
            SameFid(observations, f) = SameFid(BuildObservations(msg), f)

\* C7: a sighting with a zero area (area policy) or a zero error (error
\* policy) yields an observation with a finite, strictly positive variance
ZeroMetric(ft) ==
    IF use_fiducial_area_as_weight THEN IsZero(ft.fiducial_area)
    ELSE IsZero(ft.object_error)

C7_ZeroMetricClamped ==
    pc = "fuse" =>
        \A k \in 1..Len(msg.transforms) :
            ZeroMetric(msg.transforms[k]) =>
                \A i \in ObservationsOf(msg.transforms[k]) :
                    LET v == observations[i].T_camFid.variance
                    IN  IsFinite(v) /\ v.n > 0 /\ ~v.neg

\* C8: with fiducialsFlat every observation handed to fiducialMap.update
\* has rotation x = 0 and y = 0 and keeps z and w of its sighting
C8_FlatZeroesRollPitch ==
    (pc = "fuse" /\ fiducialsFlat) =>
        \A k \in 1..Len(msg.transforms) :
            \A i \in ObservationsOf(msg.transforms[k]) :
                LET r == observations[i].T_camFid.transform.rotation
                    q == msg.transforms[k].transform.rotation
                IN  r.x = 0 /\ r.y = 0 /\ r.z = q.z /\ r.w = q.w

\* v is the IEEE quotient s / a, stated by cross-multiplication
IsQuotient(v, s, a) ==
    IF s.k = "nan" \/ a.k = "nan" THEN v.k = "nan"
    ELSE IF s.k = "inf" THEN (IF a.k = "inf" THEN v.k = "nan"
                              ELSE v.k = "inf" /\ v.neg = (s.neg # a.neg))
    ELSE IF a.k = "inf" THEN IsZero(v) /\ v.neg = (s.neg # a.neg)
    ELSE IF a.n = 0 THEN (IF s.n = 0 THEN v.k = "nan"
                          ELSE v.k = "inf" /\ v.neg = (s.neg # a.neg))
    ELSE /\ v.k = "fin"
         /\ v.neg = (s.neg # a.neg)
         /\ v.n * a.n * s.d = s.n * v.d * a.d

\* v is the IEEE product s * e, stated by cross-multiplication
IsProduct(v, s, e) ==
    IF s.k = "nan" \/ e.k = "nan" THEN v.k = "nan"
    ELSE IF s.k = "inf" \/ e.k = "inf"
         THEN (IF IsZero(s) \/ IsZero(e) THEN v.k = "nan"
               ELSE v.k = "inf" /\ v.neg = (s.neg # e.neg))
    ELSE /\ v.k = "fin"
         /\ v.neg = (s.neg # e.neg)
         /\ v.n * s.d * e.d = s.n * e.n * v.d

\* C9: every observation's variance is weighting_scale / fiducial_area under
\* the area policy and weighting_scale * object_error otherwise, with the
\* node's policy flag and scale
C9_VarianceFollowsPolicy ==
    pc = "fuse" =>
        \A k \in 1..Len(msg.transforms) :
            /\ ObservationsOf(msg.transforms[k]) # {}
            /\ \A i \in ObservationsOf(msg.transforms[k]) :
                LET v == observations[i].T_camFid.variance
                IN  IF use_fiducial_area_as_weight
                    THEN IsQuotient(v, weighting_scale, msg.transforms[k].fiducial_area)
                    ELSE IsProduct(v, weighting_scale, msg.transforms[k].object_error)

C9_Witness ==
    /\ pc = "fuse"
    /\ use_fiducial_area_as_weight
    /\ weighting_scale = Fin(FALSE, 2, 1)
    /\ Len(observations) = 2
    /\ observations[1].T_camFid.variance = Fin(FALSE, 1, 1)
    /\ observations[2].T_camFid.variance = Fin(FALSE, 1, 2)

\* C10: every observation handed to fiducialMap.update carries a finite,
\* non-negative variance, malformed sightings included
C10_VarianceFiniteNonNegative ==
    \A i \in 1..Len(observations) :
        LET v == observations[i].T_camFid.variance
        IN  IsFinite(v) /\ (v.n = 0 \/ ~v.neg)

\* no callback is in flight: its message and observation vector are gone
NoPassInFlight == msg = NoMsg /\ observations = <<>> /\ fuseIdx = 0 /\ updateStamp = 0

\* C11: a fusion pass and a maintenance tick never overlap and no two passes
\* overlap: while the tick runs, and whenever spinOnce may dispatch a
\* callback, every earlier callback has returned
C11_NoOverlap ==
    /\ pc \in {"tick", "loop", "spin", "sleep"} => NoPassInFlight
    /\ pc = "fuse" => (msg # NoMsg /\ fuseIdx <= Len(observations))

C11_Witness ==
    /\ pc = "tick"
    /\ landmarks = {1, 2}
    /\ rosOk
    /\ NoPassInFlight

\* C12: every iteration of the main loop issues exactly one maintenance
\* tick, after spinOnce and the sleep, with or without a batch: the tick is
\* entered from the sleep only, the sleep is left for the tick only, and the
\* top of the loop is reached again only from a returning tick
C12_OneTickPerIteration ==
    [][/\ (pc' = "tick" /\ pc # "tick") => pc = "sleep"
       /\ (pc = "sleep" /\ pc' # "sleep") => pc' = "tick"
       /\ (pc = "spin" /\ pc' # "spin") => pc' \in {"sleep", "fuse"}
       /\ (pc = "fuse" /\ pc' # "fuse") => pc' = "sleep"
       /\ (pc' = "loop" /\ pc # "loop") => pc \in {"tick", "install"}
       /\ (pc = "tick" /\ pc' # "tick") => pc' = "loop"]_vars

C12_Witness ==
    /\ pc = "tick"
    /\ landmarks = {}
    /\ ft_sub
    /\ ~use_read_only_map
    /\ rosOk

\* how many elements of s carry identifier f under the field selector id
CountFid(s, id(_), f) == Cardinality({ i \in 1..Len(s) : id(s[i]) = f })

\* C13: the one update call a message causes is handed exactly one
\* Observation per sighting: the identifiers passed are, as a multiset, the
\* identifiers received, and an empty message yields an empty list
C13_OnePerSighting ==
    pc = "fuse" =>
        /\ Len(observations) = Len(msg.transforms)
        /\ \A f \in { ft.fiducial_id : ft \in Sightings } \cup { o.fid : o \in
                    { observations[i] : i \in 1..Len(observations) } } :
              CountFid(observations, LAMBDA o : o.fid, f)
                  = CountFid(msg.transforms, LAMBDA ft : ft.fiducial_id, f)

C13_Witness ==
    /\ pc = "fuse"
    /\ Len(msg.transforms) = 2
    /\ msg.transforms[1].fiducial_id = msg.transforms[2].fiducial_id
    /\ msg.transforms[1] # msg.transforms[2]
    /\ Len(observations) = 2

\* C14: every Observation of a pass carries the message's header stamp and
\* frame id, and the stamp handed to fiducialMap.update is that same stamp
C14_OneStampOneFrame ==
    pc = "fuse" =>
        /\ msg.stamp \in Stamps
        /\ updateStamp = msg.stamp
        /\ \A i \in 1..Len(observations) :
              /\ observations[i].T_camFid.stamp_ = msg.stamp
              /\ observations[i].T_camFid.frame_id_ = msg.frame_id

C14_Witness ==
    /\ pc = "fuse"
    /\ msg.stamp = 20
    /\ Len(observations) = 2
    /\ observations[1].T_camFid.stamp_ = 20
    /\ observations[2].T_camFid.stamp_ = 20
    /\ landmarks # {}

\* an observation list without its rotations
NonRotation(s) ==
    [i \in 1..Len(s) |->
        [fid         |-> s[i].fid,
         translation |-> s[i].T_camFid.transform.translation,
         variance    |-> s[i].T_camFid.variance,
         stamp_      |-> s[i].T_camFid.stamp_,
         frame_id_   |-> s[i].T_camFid.frame_id_]]

\* the lists the callback may hand to update for message m when the
\* flattening flag is flat
ListsFor(flat, m) ==
    StdSort([i \in 1..Len(m.transforms) |-> ObservationFor(flat, m.transforms[i], m)])

\* C15: the list handed to update is, rotations apart, a list the callback
\* hands to update for the same message with the flattening flag reversed:
\* same identifiers, translations, variances, stamps, frame and order
C15_FlatChangesRotationOnly ==
    pc = "fuse" =>
        NonRotation(observations)
            \in { NonRotation(t) : t \in ListsFor(~fiducialsFlat, msg) }

C15_Witness ==
    /\ pc = "fuse"
    /\ fiducialsFlat
    /\ Len(observations) = 2
    /\ observations[1].fid < observations[2].fid
    /\ msg.transforms[1].transform.rotation.x = 1

\* C16: whenever spinOnce can dispatch (subscribed, not shut down), every
\* message is taken by transformCallback and handed to
\* fiducialMap.update(observations, stamp), read-only or not
C16_DeliveredWhenReadOnly ==
    (pc = "spin" /\ hpc = "none" /\ ft_sub /\ rosOk) =>
        \A m \in Messages : ENABLED transformCallback(m)

C16_Witness ==
    /\ use_read_only_map
    /\ pc = "fuse"
    /\ Len(msg.transforms) = 2
    /\ Len(observations) = 2
    /\ fuseIdx = 2
    /\ saveCount = 0

\* C17: once the constructor has returned, no step changes
\* use_fiducial_area_as_weight, weighting_scale, fiducialsFlat,
\* use_read_only_map or verboseInfo
C17_ConfigImmutable ==
    [][pc # "construct" =>
          UNCHANGED <<use_fiducial_area_as_weight, weighting_scale, fiducialsFlat,
                      use_read_only_map, verboseInfo>>]_vars

C17_Witness ==
    /\ pc = "done"
    /\ use_read_only_map
    /\ use_fiducial_area_as_weight
    /\ fiducialsFlat
    /\ verboseInfo
    /\ weighting_scale = Fin(FALSE, 2, 1)
    /\ sigCount >= 1
    /\ saveCount = 0

\* C18: with do_pose_estimation set the node is not subscribed, no callback
\* runs and no observation reaches the map
C18_NoFusionWhenPoseEstimation ==
    doPoseEstimation =>
        /\ ~ft_sub
        /\ pc # "fuse"
        /\ msg = NoMsg
        /\ observations = <<>>
        /\ landmarks = {}

C18_Witness ==
    /\ doPoseEstimation
    /\ node
    /\ pc = "tick"
    /\ rosOk

\* C19: mySigintHandler is the disposition of SIGINT only once the node is
\* constructed, so the handler never runs with node null
C19_HandlerSeesNode ==
    (handler = "mySigintHandler" \/ hpc # "none") => node

C19_Witness ==
    /\ hpc = "entered"
    /\ node
    /\ pc = "fuse"

====
